---- MODULE Spec2Model ----
(***************************************************************************)
(* Product feed validator and schema.org markup generator (src/app.py).    *)
(*                                                                         *)
(* Text is a sequence of one-character strings, so that str.lower(),       *)
(* str.split(), len(), float() and re.match() are computed, not assumed.   *)
(* A cell value is a record [kind, text]:                                  *)
(*   kind = "none"  Python None                                            *)
(*   kind = "nan"   float NaN (what pandas stores for an empty cell)       *)
(*   kind = "str"   a str, text its characters                             *)
(*   kind = "num"   an int or float, text its repr (what str() returns)    *)
(*   kind = "nokey" the key is not in the mapping at all                   *)
(***************************************************************************)
EXTENDS Integers, Sequences, FiniteSets, TLC

VARIABLES
    mode,          \* which entry point this behaviour exercises
    pc,            \* where the exercised entry point is
    columns,       \* df.columns
    rows,          \* the rows of df, each a function columns -> value
    results,       \* validate_product_feed's results dictionary
    idx,           \* the row of df validate_product_feed's loop is at
    field_name,    \* validate_field's argument
    value,         \* validate_field's argument
    field_spec,    \* validate_field's argument spec
    field_result,  \* what validate_field returned
    product_data,  \* generate_schema_markup's argument
    schema,        \* what generate_schema_markup returned
    product        \* what extract_product_from_schema returned

vars == <<mode, pc, columns, rows, results, idx, field_name, value, field_spec,
          field_result, product_data, schema, product>>

----------------------------------------------------------------------------
(* Bounds *)

MaxRows == 2

----------------------------------------------------------------------------
(* Python text primitives *)

Whitespace == {" ", "\t", "\n"}

Digits == {"0", "1", "2", "3", "4", "5", "6", "7", "8", "9"}

DigitVal(c) ==
    CASE c = "0" -> 0 [] c = "1" -> 1 [] c = "2" -> 2 [] c = "3" -> 3
      [] c = "4" -> 4 [] c = "5" -> 5 [] c = "6" -> 6 [] c = "7" -> 7
      [] c = "8" -> 8 [] c = "9" -> 9

LowerChar(c) ==
    CASE c = "A" -> "a" [] c = "B" -> "b" [] c = "C" -> "c" [] c = "D" -> "d"
      [] c = "E" -> "e" [] c = "F" -> "f" [] c = "G" -> "g" [] c = "H" -> "h"
      [] c = "I" -> "i" [] c = "J" -> "j" [] c = "K" -> "k" [] c = "L" -> "l"
      [] c = "M" -> "m" [] c = "N" -> "n" [] c = "O" -> "o" [] c = "P" -> "p"
      [] c = "Q" -> "q" [] c = "R" -> "r" [] c = "S" -> "s" [] c = "T" -> "t"
      [] c = "U" -> "u" [] c = "V" -> "v" [] c = "W" -> "w" [] c = "X" -> "x"
      [] c = "Y" -> "y" [] c = "Z" -> "z" [] OTHER -> c

\* str.lower()
Lower(t) == [i \in 1..Len(t) |-> LowerChar(t[i])]

\* t[k:] with k counted from 1
From(t, k) == SubSeq(t, k, Len(t))

\* str.startswith(p)
StartsWith(t, p) == Len(t) >= Len(p) /\ SubSeq(t, 1, Len(p)) = p

\* p in t, for strings
Contains(t, p) ==
    \E k \in 1..(Len(t) - Len(p) + 1) : SubSeq(t, k, k + Len(p) - 1) = p

\* index of the first character of t at or after k that is not whitespace,
\* Len(t) + 1 when there is none
SkipSpace(t, k) ==
    IF \E i \in k..Len(t) : t[i] \notin Whitespace
    THEN CHOOSE i \in k..Len(t) :
            /\ t[i] \notin Whitespace
            /\ \A j \in k..(i - 1) : t[j] \in Whitespace
    ELSE Len(t) + 1

\* index of the first character of t at or after k that is whitespace,
\* Len(t) + 1 when there is none
SkipWord(t, k) ==
    IF \E i \in k..Len(t) : t[i] \in Whitespace
    THEN CHOOSE i \in k..Len(t) :
            /\ t[i] \in Whitespace
            /\ \A j \in k..(i - 1) : t[j] \notin Whitespace
    ELSE Len(t) + 1

\* str.split(): the maximal runs of non-whitespace characters, in order.
\* SplitFrom(t, k) splits t[k:], SplitAt continues at the start b of the next
\* token, SplitToken with its end e as well.
RECURSIVE SplitFrom(_, _)
RECURSIVE SplitAt(_, _)
RECURSIVE SplitToken(_, _, _)
SplitToken(t, b, e) == <<SubSeq(t, b, e - 1)>> \o SplitFrom(t, e)
SplitAt(t, b) ==
    IF b > Len(t) THEN <<>> ELSE SplitToken(t, b, SkipWord(t, b))
SplitFrom(t, k) == SplitAt(t, SkipSpace(t, k))

Split(t) == SplitFrom(t, 1)

\* str.strip()
RECURSIVE RStrip(_)
RStrip(t) ==
    IF t # <<>> /\ t[Len(t)] \in Whitespace
    THEN RStrip(SubSeq(t, 1, Len(t) - 1)) ELSE t

Strip(t) == RStrip(From(t, SkipSpace(t, 1)))

AllDigits(t) == \A i \in 1..Len(t) : t[i] \in Digits

\* the number a run of decimal digits denotes
RECURSIVE DigitsVal(_)
DigitsVal(t) ==
    IF t = <<>> THEN 0
    ELSE 10 * DigitsVal(SubSeq(t, 1, Len(t) - 1)) + DigitVal(t[Len(t)])

\* index of the first "." of t at or after k, Len(t) + 1 when there is none
DotAt(t, k) ==
    IF \E i \in k..Len(t) : t[i] = "."
    THEN CHOOSE i \in k..Len(t) :
            t[i] = "." /\ \A j \in k..(i - 1) : t[j] # "."
    ELSE Len(t) + 1

(***************************************************************************)
(* float(text).  The literal forms modelled are the ones the sample texts  *)
(* can spell: optional surrounding whitespace, an optional sign, then      *)
(* either decimal digits with an optional fraction (a digit on at least    *)
(* one side of the point) or one of inf, infinity, nan in any case.        *)
(* Anything else raises ValueError.  The result is                         *)
(*   [ok, finite, neg, int]: ok = no ValueError, finite = neither inf nor  *)
(*   nan, neg = a minus sign was given, int = the integer part's magnitude *)
(***************************************************************************)
Unsigned(t) ==
    IF t # <<>> /\ t[1] \in {"+", "-"} THEN From(t, 2) ELSE t

\* the literal with integer digits ip and fraction digits fp
FloatDecimal(neg, ip, fp) ==
    IF AllDigits(ip) /\ AllDigits(fp) /\ (ip # <<>> \/ fp # <<>>)
    THEN [ok |-> TRUE, finite |-> TRUE, neg |-> neg, int |-> DigitsVal(ip)]
    ELSE [ok |-> FALSE, finite |-> FALSE, neg |-> FALSE, int |-> 0]

\* the unsigned literal u, its first point at d
FloatUnsigned(neg, u, d) ==
    IF Lower(u) \in {<<"i","n","f">>, <<"n","a","n">>,
                     <<"i","n","f","i","n","i","t","y">>}
    THEN [ok |-> TRUE, finite |-> FALSE, neg |-> neg, int |-> 0]
    ELSE FloatDecimal(neg, SubSeq(u, 1, d - 1), From(u, d + 1))

\* the stripped literal s, its sign removed in u
FloatSigned(s, u) == FloatUnsigned(s # <<>> /\ s[1] = "-", u, DotAt(u, 1))

FloatStripped(s) == FloatSigned(s, Unsigned(s))

float(t) == FloatStripped(Strip(t))

----------------------------------------------------------------------------
(* Cell values *)

None == [kind |-> "none", text |-> <<>>]
NaN == [kind |-> "nan", text |-> <<>>]
NoKey == [kind |-> "nokey", text |-> <<>>]
Str(t) == [kind |-> "str", text |-> t]
Num(t) == [kind |-> "num", text |-> t]

\* pd.isna(value), pd.notna(value)
isna(v) == v.kind \in {"none", "nan"}
notna(v) == ~isna(v)

\* str(value)
str(v) == v.text

\* a text of n copies of the character c
Repeat(c, n) == [i \in 1..n |-> c]

----------------------------------------------------------------------------
(* load_specifications: the registry, in dictionary order *)

Fields ==
    <<"enable_search", "enable_checkout", "id", "gtin", "mpn", "title",
      "description", "link", "condition", "product_category", "brand",
      "material", "weight", "image_link", "price", "availability",
      "inventory_quantity", "seller_name", "seller_url", "return_policy",
      "return_window">>

FieldSet == {Fields[i] : i \in 1..Len(Fields)}

T_true == <<"t","r","u","e">>
T_false == <<"f","a","l","s","e">>
T_new == <<"n","e","w">>
T_refurbished == <<"r","e","f","u","r","b","i","s","h","e","d">>
T_used == <<"u","s","e","d">>
T_in_stock == <<"i","n","_","s","t","o","c","k">>
T_out_of_stock == <<"o","u","t","_","o","f","_","s","t","o","c","k">>
T_preorder == <<"p","r","e","o","r","d","e","r">>

\* One registry entry.  keys is the set of optional keys the dict literal has;
\* max_length and values are read only when their key is in keys.
SpecEntry(type, keys, required, max_length, values) ==
    [type |-> type, keys |-> keys, required |-> required,
     max_length |-> max_length, values |-> values,
     recommended |-> "recommended" \in keys]

String(required, max_length) ==
    SpecEntry("String", {"max_length"}, required, max_length, <<>>)
Enum(required, values) == SpecEntry("Enum", {"values"}, required, 0, values)
Typed(type, required) == SpecEntry(type, {}, required, 0, <<>>)

load_specifications ==
    [f \in FieldSet |->
       CASE f = "enable_search" -> Enum("True", <<T_true, T_false>>)
         [] f = "enable_checkout" -> Enum("True", <<T_true, T_false>>)
         [] f = "id" -> String("True", 100)
         [] f = "gtin" -> SpecEntry("String", {"pattern", "recommended"},
                                    "False", 0, <<>>)
         [] f = "mpn" -> String("conditional", 70)
         [] f = "title" -> String("True", 150)
         [] f = "description" -> String("True", 5000)
         [] f = "link" -> Typed("URL", "True")
         [] f = "condition" ->
                Enum("conditional", <<T_new, T_refurbished, T_used>>)
         [] f = "product_category" -> Typed("String", "True")
         [] f = "brand" -> String("conditional", 70)
         [] f = "material" -> String("True", 100)
         [] f = "weight" -> Typed("Number", "True")
         [] f = "image_link" -> Typed("URL", "True")
         [] f = "price" -> Typed("Number", "True")
         [] f = "availability" ->
                Enum("True", <<T_in_stock, T_out_of_stock, T_preorder>>)
         [] f = "inventory_quantity" -> Typed("Integer", "True")
         [] f = "seller_name" -> String("True", 70)
         [] f = "seller_url" -> Typed("URL", "True")
         [] f = "return_policy" -> Typed("URL", "True")
         [] f = "return_window" -> Typed("Integer", "True")]

\* spec.get('required') == True
IsRequired(spec) == spec.required = "True"

RequiredFields == {f \in FieldSet : IsRequired(load_specifications[f])}

----------------------------------------------------------------------------
(* validate_field *)

Msg(kind, f) == [kind |-> kind, field |-> f]

\* validators.url(text): true for an absolute http(s) URL, scheme "://" host,
\* the host holding an inner dot and the text no whitespace
UrlAfterScheme(t) ==
    IF StartsWith(t, <<"h","t","t","p","s",":","/","/">>) THEN From(t, 9)
    ELSE IF StartsWith(t, <<"h","t","t","p",":","/","/">>) THEN From(t, 8)
    ELSE <<>>

\* index of the first "/" of t, Len(t) + 1 when there is none
SlashAt(t) ==
    IF \E i \in 1..Len(t) : t[i] = "/"
    THEN CHOOSE i \in 1..Len(t) :
            t[i] = "/" /\ \A j \in 1..(i - 1) : t[j] # "/"
    ELSE Len(t) + 1

UrlHost(rest) == SubSeq(rest, 1, SlashAt(rest) - 1)

HasInnerDot(host) == \E k \in 2..(Len(host) - 1) : host[k] = "."

validators_url(t) ==
    /\ \A i \in 1..Len(t) : t[i] \notin Whitespace
    /\ HasInnerDot(UrlHost(UrlAfterScheme(t)))

\* re.match(r'^\d{8,14}$', text): 8 to 14 digits, then the end of the text or
\* one newline that ends it
MatchesPattern(t) ==
    LET body == IF t # <<>> /\ t[Len(t)] = "\n"
                THEN SubSeq(t, 1, Len(t) - 1) ELSE t
    IN AllDigits(body) /\ Len(body) >= 8 /\ Len(body) <= 14

\* The outcome of one check: the messages it appends and whether an exception
\* leaves it.
Checked(errors) == [errors |-> errors, raised |-> FALSE]
Raises == [errors |-> <<>>, raised |-> TRUE]

\* ... a negative value rounded away from zero instead of toward it
int_away_from_zero(x) ==
    IF ~x.ok \/ ~x.finite THEN [raised |-> TRUE, val |-> 0]
    ELSE [raised |-> FALSE, val |-> IF x.neg THEN 0 - (x.int + 1) ELSE x.int]

\* int(x): raises OverflowError or ValueError when x is inf or nan, otherwise
\* truncates toward zero; x not ok is float() having raised ValueError
int(x) ==
    IF ~x.ok \/ ~x.finite THEN [raised |-> TRUE, val |-> 0]
    ELSE [raised |-> FALSE, val |-> IF x.neg THEN 0 - x.int ELSE x.int]

\* int(float(value))
int_float(v) == int(float(str(v)))

\* the String branch
CheckString(f, v, spec) ==
    IF "max_length" \in spec.keys /\ Len(str(v)) > spec.max_length
    THEN Checked(<<Msg("max_length", f)>>) ELSE Checked(<<>>)

\* the URL branch
CheckURL(f, v) ==
    IF ~validators_url(str(v)) THEN Checked(<<Msg("url", f)>>)
    ELSE Checked(<<>>)

\* the Enum branch
CheckEnum(f, v, spec) ==
    IF \A i \in 1..Len(spec.values) : Lower(str(v)) # Lower(spec.values[i])
    THEN Checked(<<Msg("enum", f)>>) ELSE Checked(<<>>)

\* the Integer branch: try int_val = int(float(value)), bare except;
\* r is what int(float(value)) did
IntegerUncaught(f, r) ==
    IF r.raised THEN Raises
    ELSE IF r.val < 0 THEN Checked(<<Msg("non_negative", f)>>)
    ELSE Checked(<<>>)

IntegerCaught(f, r) ==
    IF r.raised THEN Checked(<<Msg("integer", f)>>)
    ELSE IF r.val < 0 THEN Checked(<<Msg("non_negative", f)>>)
    ELSE Checked(<<>>)

CheckInteger(f, v) == IntegerCaught(f, int_float(v))

\* the Number branch parsing every token and passing when any is a number
NumberCaughtAnyToken(f, parts) ==
    IF \A k \in 1..Len(parts) : ~float(parts[k]).ok
    THEN Checked(<<Msg("number", f)>>) ELSE Checked(<<>>)

\* the Number branch: try float(str(value).split()[0]), bare except; the
\* subscript raises IndexError when the text has no token
NumberCaught(f, parts) ==
    IF parts = <<>> \/ ~float(parts[1]).ok
    THEN Checked(<<Msg("number", f)>>) ELSE Checked(<<>>)

\* ... parsing the whole text instead of its first token
CheckNumberWholeText(f, v) == NumberCaught(f, <<str(v)>>)

CheckNumber(f, v) == NumberCaught(f, Split(str(v)))

\* the if/elif chain on spec.get('type')
TypeCheck(f, v, spec) ==
    CASE spec.type = "String" -> CheckString(f, v, spec)
      [] spec.type = "URL" -> CheckURL(f, v)
      [] spec.type = "Enum" -> CheckEnum(f, v, spec)
      [] spec.type = "Integer" -> CheckInteger(f, v)
      [] spec.type = "Number" -> CheckNumber(f, v)
      [] OTHER -> Checked(<<>>)

\* the pattern block
PatternCheck(f, v, spec) ==
    IF "pattern" \in spec.keys /\ ~MatchesPattern(str(v))
    THEN <<Msg("pattern", f)>> ELSE <<>>

\* ... the test for '' left out
IsAbsentNaOnly(v) == isna(v) \/ v.kind = "none"

\* pd.isna(value) or value == '' or value is None
IsAbsent(v) == isna(v) \/ (v.kind = "str" /\ v.text = <<>>) \/ v.kind = "none"

\* the absence block, which returns
AbsentResult(f, spec) ==
    [errors |-> IF IsRequired(spec) THEN <<Msg("required_missing", f)>>
                ELSE <<>>,
     warnings |-> IF ~IsRequired(spec) /\ spec.recommended
                  THEN <<Msg("recommended_missing", f)>> ELSE <<>>,
     raised |-> FALSE]

\* the absence block falling through to the checks below it
FallThrough(f, v, spec, a, t) ==
    [errors |-> a.errors \o t.errors \o PatternCheck(f, v, spec),
     warnings |-> a.warnings, raised |-> t.raised]

AbsentResultFallThrough(f, v, spec) ==
    FallThrough(f, v, spec, AbsentResult(f, spec), TypeCheck(f, v, spec))

WhenAbsent(f, v, spec) == AbsentResult(f, spec)

\* ... the pattern check skipped once the type check has found an error
WhenPresentShortCircuit(f, v, spec, t) ==
    IF t.raised THEN [errors |-> <<>>, warnings |-> <<>>, raised |-> TRUE]
    ELSE [errors |-> IF t.errors # <<>> THEN t.errors
                     ELSE PatternCheck(f, v, spec),
          warnings |-> <<>>, raised |-> FALSE]

\* the rest of validate_field, t what the type check did
WhenPresent(f, v, spec, t) ==
    IF t.raised THEN [errors |-> <<>>, warnings |-> <<>>, raised |-> TRUE]
    ELSE [errors |-> t.errors \o PatternCheck(f, v, spec),
          warnings |-> <<>>, raised |-> FALSE]

validate_field(f, v, spec) ==
    IF IsAbsent(v) THEN WhenAbsent(f, v, spec)
    ELSE WhenPresent(f, v, spec, TypeCheck(f, v, spec))

----------------------------------------------------------------------------
(* Sample texts and values *)

T_Shoe == <<"S","h","o","e">>
T_SKU1 == <<"S","K","U","1">>
T_abc == <<"a","b","c">>
T_USD == <<"U","S","D">>
T_EUR == <<"E","U","R">>
T_79_99 == <<"7","9",".","9","9">>
T_79_99_USD == T_79_99 \o <<" ">> \o T_USD
T_79_99_EUR == T_79_99 \o <<" ">> \o T_EUR
T_USD_79_99 == T_USD \o <<" ">> \o T_79_99
T_3_9 == <<"3",".","9">>
T_minus_1 == <<"-","1">>
T_minus_0_5 == <<"-","0",".","5">>
T_25 == <<"2","5">>
T_inf == <<"i","n","f">>
T_TRUE == <<"T","R","U","E">>
T_IN_STOCK == <<"I","N","_","S","T","O","C","K">>
T_PREORDER == <<"P","R","E","O","R","D","E","R">>
T_backorder == <<"b","a","c","k","o","r","d","e","r">>
T_url == <<"h","t","t","p","s",":","/","/","a",".","c","o","m","/","p">>
T_img == <<"h","t","t","p","s",":","/","/","a",".","c","o","m","/","i">>
T_a_com == <<"a",".","c","o","m">>
T_gtin8 == <<"1","2","3","4","5","6","7","8">>
T_gtin7 == <<"1","2","3","4","5","6","7">>
T_gtin8_0 == T_gtin8 \o <<".","0">>
T_blank == <<" ">>
T_Acme == <<"A","c","m","e">>
T_4_5 == <<"4",".","5">>
T_10 == <<"1","0">>

\* the values validate_field is tried on
FieldValues ==
    {None, NaN, Str(<<>>), Str(T_blank), Str(T_Shoe), Str(T_abc),
     Str(T_79_99_USD), Str(T_USD_79_99), Str(T_79_99), Str(T_3_9),
     Str(T_minus_1), Str(T_minus_0_5), Str(T_25), Str(T_inf), Str(T_TRUE),
     Str(T_true), Str(T_in_stock), Str(T_IN_STOCK), Str(T_backorder),
     Str(T_url), Str(T_a_com), Str(T_gtin8), Str(T_gtin7),
     Str(T_gtin8 \o <<"\n">>),
     Str(Repeat("x", 71)), Str(Repeat("x", 101)), Str(Repeat("x", 151)),
     Str(Repeat("x", 5001)),
     Num(T_25), Num(T_minus_1), Num(T_79_99), Num(T_gtin8_0)}

----------------------------------------------------------------------------
(* validate_product_feed *)

\* a float: kind "finite" is the real number num / den, kind "nan" is NaN
Float(num, den) == [kind |-> "finite", num |-> num, den |-> den]
FloatNaN == [kind |-> "nan", num |-> 0, den |-> 1]

\* non_empty / len(df) with non_empty a numpy.int64, the result of
\* Series.sum(): 0 / 0 is nan (a RuntimeWarning, no exception).  non_empty
\* never exceeds len(df), so x / 0 with x # 0 does not arise.
TrueDivide(a, b) == IF b = 0 THEN FloatNaN ELSE Float(a, b)

\* x * 100
Times100(x) == IF x.kind = "finite" THEN Float(x.num * 100, x.den) ELSE x

\* df[field_name].notna().sum()
RECURSIVE NotNaCount(_, _, _)
NotNaCount(rs, f, i) ==
    IF i > Len(rs) THEN 0
    ELSE (IF notna(rs[i][f]) THEN 1 ELSE 0) + NotNaCount(rs, f, i + 1)

\* the keys the coverage loop assigns: one per entry of specs.items()
CoverageKeysFromColumns(cols) == cols

CoverageKeys(cols) == FieldSet

\* the entry of a field that is a column, non_empty of its n cells not NaN
PresentEntry(non_empty, n) ==
    [present |-> TRUE, filled |-> non_empty,
     percentage |-> Times100(TrueDivide(non_empty, n))]

\* the coverage entry the loop body assigns for one registry field
CoverageEntry(cols, rs, f) ==
    IF f \in cols THEN PresentEntry(NotNaCount(rs, f, 1), Len(rs))
    ELSE [present |-> FALSE, filled |-> 0, percentage |-> Float(0, 1)]

\* ... on the truth value of spec.get('required'), 'conditional' included
MissingRequiredTruthy(cols) ==
    {f \in FieldSet : f \notin cols /\ load_specifications[f].required # "False"}

\* the fields the else branch adds to missing_required_fields
MissingRequired(cols) ==
    {f \in FieldSet : f \notin cols /\ IsRequired(load_specifications[f])}

\* ... and, in its elif, to missing_recommended_fields
MissingRecommended(cols) ==
    {f \in FieldSet : /\ f \notin cols
                      /\ ~IsRequired(load_specifications[f])
                      /\ load_specifications[f].recommended}

\* the concatenation of a sequence of sequences
RECURSIVE Flatten(_)
Flatten(ss) == IF ss = <<>> THEN <<>> ELSE Head(ss) \o Flatten(Tail(ss))

\* what validate_field returns for each entry of specs.items(), in order,
\* nothing for a field that is no column of df
FieldResults(cols, row) ==
    [i \in 1..Len(Fields) |->
       IF Fields[i] \in cols
       THEN validate_field(Fields[i], row[Fields[i]],
                           load_specifications[Fields[i]])
       ELSE [errors |-> <<>>, warnings |-> <<>>, raised |-> FALSE]]

\* product_errors and product_warnings, and whether a validate_field call
\* raised, from what the calls returned
Collect(rs) ==
    [errors |-> Flatten([i \in 1..Len(rs) |-> rs[i].errors]),
     warnings |-> Flatten([i \in 1..Len(rs) |-> rs[i].warnings]),
     raised |-> \E i \in 1..Len(rs) : rs[i].raised]

\* the inner loop over specs.items()
ValidateRow(cols, row) == Collect(FieldResults(cols, row))

\* the decimal text of a natural number
RECURSIVE IntText(_)
IntText(n) ==
    LET d == <<"0","1","2","3","4","5","6","7","8","9">>[(n % 10) + 1]
    IN IF n < 10 THEN <<d>> ELSE IntText(n \div 10) \o <<d>>

\* row.get('id', f'Row {idx}'), label the row's label in df's RangeIndex
ProductId(cols, row, label) ==
    IF "id" \in cols THEN row["id"]
    ELSE Str(<<"R","o","w"," ">> \o IntText(label))

\* whether a row with these product_errors is counted and listed
CountsAlways(product_errors) == TRUE

CountsAsError(product_errors) == product_errors # <<>>

\* the results dictionary after the coverage loop, coverage its
\* field_coverage; status tells "running", "returned" or, when an exception
\* left validate_product_feed, "raised"
CoverageDone(cols, rs, coverage) ==
    [status |-> "running",
     total_products |-> Len(rs),
     products_with_errors |-> 0,
     products_with_warnings |-> 0,
     field_coverage |-> coverage,
     all_errors |-> <<>>,
     all_warnings |-> <<>>,
     missing_required_fields |-> MissingRequired(cols),
     missing_recommended_fields |-> MissingRecommended(cols)]

CoverageResults(cols, rs) ==
    CoverageDone(cols, rs,
                 [f \in CoverageKeys(cols) |-> CoverageEntry(cols, rs, f)])

\* the end of one iteration of the loop over df.iterrows(): r the row's
\* product_errors and product_warnings, pid its product_id
Accumulate(acc, r, pid) ==
    IF r.raised THEN [acc EXCEPT !.status = "raised"]
    ELSE [acc EXCEPT
            !.products_with_errors =
                IF CountsAsError(r.errors) THEN @ + 1 ELSE @,
            !.all_errors =
                IF CountsAsError(r.errors)
                THEN Append(@, [product_id |-> pid, errors |-> r.errors])
                ELSE @,
            !.products_with_warnings =
                IF r.warnings # <<>> THEN @ + 1 ELSE @,
            !.all_warnings =
                IF r.warnings # <<>>
                THEN Append(@, [product_id |-> pid, warnings |-> r.warnings])
                ELSE @]

\* one iteration of the loop over df.iterrows(), on the row labelled i - 1
RowResults(cols, row, i, acc) ==
    Accumulate(acc, ValidateRow(cols, row), ProductId(cols, row, i - 1))

----------------------------------------------------------------------------
(* generate_schema_markup *)

\* JSON values of the markup document: a string or a nested object
JStr(t) == [json |-> "str", text |-> t]
JDict(d) == [json |-> "dict", dict |-> d]

\* key :> value when cond, nothing otherwise
Opt(cond, key, val) == IF cond THEN key :> val ELSE <<>>

T_context ==
    <<"h","t","t","p","s",":","/","/","s","c","h","e","m","a",".","o","r","g",
      "/">>
T_Product == <<"P","r","o","d","u","c","t">>
T_Brand == <<"B","r","a","n","d">>
T_Offer == <<"O","f","f","e","r">>
T_Organization == <<"O","r","g","a","n","i","z","a","t","i","o","n">>
T_AggregateRating ==
    <<"A","g","g","r","e","g","a","t","e","R","a","t","i","n","g">>
T_InStock == T_context \o <<"I","n","S","t","o","c","k">>
T_OutOfStock == T_context \o <<"O","u","t","O","f","S","t","o","c","k">>
T_PreOrder == T_context \o <<"P","r","e","O","r","d","e","r">>

\* field_mapping, csv field -> schema.org property
field_mapping ==
    [id |-> "sku", title |-> "name", description |-> "description",
     link |-> "url", brand |-> "brand", gtin |-> "gtin", mpn |-> "mpn",
     image_link |-> "image", material |-> "material", weight |-> "weight"]

\* key in product_data
In(pd, key) == key \in DOMAIN pd /\ pd[key].kind # "nokey"

\* key in product_data and pd.notna(product_data[key])
Has(pd, key) == In(pd, key) /\ notna(pd[key])

\* the value the mapping loop stores for csv_field
Mapped(pd, csv_field) ==
    IF field_mapping[csv_field] = "brand"
    THEN JDict("@type" :> JStr(T_Brand) @@ "name" :> JStr(str(pd[csv_field])))
    ELSE JStr(str(pd[csv_field]))

\* the csv field a schema.org property is mapped from
CsvField(schema_field) ==
    CHOOSE f \in DOMAIN field_mapping : field_mapping[f] = schema_field

\* what the loop over field_mapping.items() adds to the document
MappedPart(pd) ==
    [k \in {field_mapping[f] : f \in {g \in DOMAIN field_mapping : Has(pd, g)}}
       |-> Mapped(pd, CsvField(k))]

\* availability_map.get(key, 'https://schema.org/InStock')
availability_map_get(key) ==
    CASE key = T_in_stock -> T_InStock
      [] key = T_out_of_stock -> T_OutOfStock
      [] key = T_preorder -> T_PreOrder
      [] OTHER -> T_InStock

\* ... with no str.lower() on the key
AvailabilityCaseSensitive(v) == availability_map_get(str(v))

\* the offer's availability for the record's availability value v
Availability(v) == availability_map_get(Lower(str(v)))

\* the offer, price_parts the split price text
Offer(pd, price_str, price_parts) ==
    "@type" :> JStr(T_Offer)
    @@ "price" :> JStr(IF price_parts # <<>> THEN price_parts[1]
                       ELSE price_str)
    @@ "priceCurrency" :> JStr(IF Len(price_parts) > 1 THEN price_parts[2]
                               ELSE T_USD)
    @@ Opt(Has(pd, "availability"), "availability",
           JStr(Availability(pd["availability"])))
    @@ Opt(Has(pd, "link"), "url", JStr(str(pd["link"])))
    @@ Opt(Has(pd, "seller_name"), "seller",
           JDict("@type" :> JStr(T_Organization)
                 @@ "name" :> JStr(str(pd["seller_name"]))))

\* what the offers block adds
OffersPart(pd) ==
    Opt(Has(pd, "price"), "offers",
        JDict(Offer(pd, str(pd["price"]), Split(str(pd["price"])))))

\* what the aggregateRating block adds
RatingPart(pd) ==
    Opt(Has(pd, "product_review_rating"), "aggregateRating",
        JDict("@type" :> JStr(T_AggregateRating)
              @@ "ratingValue" :> JStr(str(pd["product_review_rating"]))
              @@ Opt(Has(pd, "product_review_count"), "reviewCount",
                     JStr(str(pd["product_review_count"])))))

generate_schema_markup(pd) ==
    "@context" :> JStr(T_context) @@ "@type" :> JStr(T_Product)
    @@ MappedPart(pd) @@ OffersPart(pd) @@ RatingPart(pd)

----------------------------------------------------------------------------
(* extract_product_from_schema *)

\* mapping, schema.org property -> csv field
mapping ==
    [name |-> "title", description |-> "description", url |-> "link",
     image |-> "image_link", sku |-> "id", gtin |-> "gtin", mpn |-> "mpn",
     material |-> "material"]

SchemaKey(csv_key) == CHOOSE k \in DOMAIN mapping : mapping[k] = csv_key

\* value.get('name', str(value)) for a dict, the value itself for a string;
\* the markup generate_schema_markup builds holds no list
Extracted(v) ==
    IF v.json = "dict"
    THEN (IF "name" \in DOMAIN v.dict THEN Str(v.dict["name"].text)
          ELSE Str(<<"{","}">>))
    ELSE Str(v.text)

\* what the loop over mapping.items() stores
ExtractMapped(sd) ==
    [c \in {mapping[k] : k \in DOMAIN mapping \cap DOMAIN sd}
       |-> Extracted(sd[SchemaKey(c)])]

\* the brand block
ExtractBrand(sd) ==
    Opt("brand" \in DOMAIN sd, "brand",
        IF "brand" \in DOMAIN sd THEN Extracted(sd["brand"]) ELSE NoKey)

\* ... the currency left out
PriceTextNoCurrency(offers) == offers["price"].text

\* f"{offers['price']} {currency}"
PriceText(offers) ==
    offers["price"].text \o <<" ">>
    \o (IF "priceCurrency" \in DOMAIN offers THEN offers["priceCurrency"].text
        ELSE T_USD)

\* the if/elif chain on avail = offers['availability'].lower(); no key is
\* stored when none of the three words occurs
AvailabilityPart(avail) ==
    IF Contains(avail, <<"i","n","s","t","o","c","k">>)
    THEN "availability" :> Str(T_in_stock)
    ELSE IF Contains(avail, <<"o","u","t","o","f","s","t","o","c","k">>)
    THEN "availability" :> Str(T_out_of_stock)
    ELSE IF Contains(avail, <<"p","r","e","o","r","d","e","r">>)
    THEN "availability" :> Str(T_preorder)
    ELSE <<>>

\* the body of the offers block, offers a dict
ExtractOffer(offers) ==
    Opt("price" \in DOMAIN offers, "price",
        IF "price" \in DOMAIN offers THEN Str(PriceText(offers)) ELSE NoKey)
    @@ (IF "availability" \in DOMAIN offers
        THEN AvailabilityPart(Lower(offers["availability"].text))
        ELSE <<>>)

ExtractOffers(sd) ==
    IF "offers" \in DOMAIN sd /\ sd["offers"].json = "dict"
    THEN ExtractOffer(sd["offers"].dict)
    ELSE <<>>

\* rating.get(key, '')
RatingGet(rating, key) ==
    IF key \in DOMAIN rating THEN Str(rating[key].text) ELSE Str(<<>>)

\* the aggregateRating block
ExtractRating(sd) ==
    IF "aggregateRating" \in DOMAIN sd /\ sd["aggregateRating"].json = "dict"
    THEN "product_review_rating"
            :> RatingGet(sd["aggregateRating"].dict, "ratingValue")
         @@ "product_review_count"
            :> RatingGet(sd["aggregateRating"].dict, "reviewCount")
    ELSE <<>>

extract_product_from_schema(sd) ==
    ExtractMapped(sd) @@ ExtractBrand(sd) @@ ExtractOffers(sd)
    @@ ExtractRating(sd)

----------------------------------------------------------------------------
(* The feeds validate_product_feed is tried on *)

T_red == <<"r","e","d">>
T_1_5_lb == <<"1",".","5"," ","l","b">>

\* the columns a feed may or may not have, "color" no registry field
VaryColumns == {"id", "gtin", "inventory_quantity", "color"}

\* the other required fields, which a feed has all of or none of
BaseColumns == RequiredFields \ VaryColumns

\* a valid value for each base column
BaseRow ==
    [f \in BaseColumns |->
       CASE f \in {"enable_search", "enable_checkout"} -> Str(T_true)
         [] f \in {"title", "description", "product_category", "material"} ->
                Str(T_Shoe)
         [] f \in {"link", "seller_url", "return_policy"} -> Str(T_url)
         [] f = "image_link" -> Str(T_img)
         [] f = "weight" -> Str(T_1_5_lb)
         [] f = "price" -> Str(T_79_99_USD)
         [] f = "availability" -> Str(T_in_stock)
         [] f = "return_window" -> Num(T_25)
         [] f = "seller_name" -> Str(T_Acme)]

CellValues(c) ==
    CASE c = "id" -> {NaN, Str(<<>>), Str(T_SKU1)}
      [] c = "gtin" -> {NaN, Str(T_gtin8)}
      [] c = "inventory_quantity" -> {Num(T_25), Str(T_abc)}
      [] c = "color" -> {Str(T_red)}

VaryRows(vary) ==
    {r \in [vary -> UNION {CellValues(c) : c \in VaryColumns}] :
        \A c \in vary : r[c] \in CellValues(c)}

FeedRows(base, vary) ==
    {(IF base THEN BaseRow ELSE <<>>) @@ v : v \in VaryRows(vary)}

----------------------------------------------------------------------------
(* Values of the variables an entry point does not use *)

NoResults == [total_products |-> 0]
NoFieldResult == [errors |-> <<>>, warnings |-> <<>>, raised |-> FALSE]
NoProductData == [k \in {} |-> NoKey]
NoSchema == [k \in {} |-> NoKey]

----------------------------------------------------------------------------
(* validate_product_feed as an entry point: process_product_feed *)

Init ==
    /\ mode = "feed"
    /\ pc = "loaded"
    /\ \E base \in BOOLEAN, vary \in SUBSET VaryColumns :
          /\ columns = (IF base THEN BaseColumns ELSE {}) \cup vary
          /\ rows \in UNION {[1..n -> FeedRows(base, vary)] : n \in 0..MaxRows}
    /\ results = NoResults
    /\ idx = 0
    /\ field_name = "id" /\ value = None /\ field_result = NoFieldResult
    /\ field_spec = load_specifications["id"]
    /\ product_data = NoProductData /\ schema = NoSchema
    /\ product = NoSchema

NotFeed ==
    <<field_name, value, field_spec, field_result, product_data, schema,
      product>>

\* validate_product_feed up to the end of its coverage loop
CoveragePass ==
    /\ mode = "feed"
    /\ pc = "loaded"
    /\ results' = CoverageResults(columns, rows)
    /\ idx' = 1
    /\ pc' = IF results'.status = "raised" THEN "raised" ELSE "rows"
    /\ UNCHANGED <<mode, columns, rows>>
    /\ UNCHANGED NotFeed

\* one iteration of its loop over the rows
ValidateProduct ==
    /\ mode = "feed"
    /\ pc = "rows"
    /\ idx <= Len(rows)
    /\ results' = RowResults(columns, rows[idx], idx, results)
    /\ idx' = idx + 1
    /\ pc' = IF results'.status = "raised" THEN "raised" ELSE "rows"
    /\ UNCHANGED <<mode, columns, rows>>
    /\ UNCHANGED NotFeed

\* its return, the loop exhausted
Return ==
    /\ mode = "feed"
    /\ pc = "rows"
    /\ idx > Len(rows)
    /\ results' = [results EXCEPT !.status = "returned"]
    /\ pc' = "done"
    /\ UNCHANGED <<mode, columns, rows, idx>>
    /\ UNCHANGED NotFeed

Next == CoveragePass \/ ValidateProduct \/ Return

Spec == Init /\ [][Next]_vars

----------------------------------------------------------------------------
(* validate_field as an entry point *)

InitField ==
    /\ mode = "field"
    /\ pc = "ready"
    /\ field_name \in FieldSet
    /\ value \in FieldValues
    /\ field_spec = load_specifications[field_name]
    /\ field_result = NoFieldResult
    /\ columns = {} /\ rows = <<>> /\ results = NoResults /\ idx = 0
    /\ product_data = NoProductData /\ schema = NoSchema
    /\ product = NoSchema

ValidateField ==
    /\ mode = "field"
    /\ pc = "ready"
    /\ field_result' =
         validate_field(field_name, value, field_spec)
    /\ pc' = "done"
    /\ UNCHANGED <<mode, columns, rows, results, idx, field_name, value,
                   field_spec, product_data, schema, product>>

NextField == ValidateField

SpecField == InitField /\ [][NextField]_vars

\* validate_field takes any spec dictionary.  Besides the registry's entry
\* for the field, it is tried on entries that combine a pattern with a
\* length limit and with the Integer type, which no entry of the registry
\* does.
PatternSpecs ==
    {SpecEntry("String", {"max_length", "pattern"}, "True", 10, <<>>),
     SpecEntry("Integer", {"pattern"}, "False", 0, <<>>)}

InitFieldAnySpec ==
    /\ mode = "field"
    /\ pc = "ready"
    /\ field_name \in FieldSet
    /\ value \in FieldValues
    /\ field_spec \in {load_specifications[field_name]} \cup PatternSpecs
    /\ field_result = NoFieldResult
    /\ columns = {} /\ rows = <<>> /\ results = NoResults /\ idx = 0
    /\ product_data = NoProductData /\ schema = NoSchema
    /\ product = NoSchema

SpecFieldAnySpec == InitFieldAnySpec /\ [][NextField]_vars

----------------------------------------------------------------------------
(* generate_schema_markup and extract_product_from_schema as entry points *)

ProductKeys ==
    {"id", "title", "description", "link", "brand", "gtin", "mpn",
     "image_link", "material", "weight", "price", "availability",
     "seller_name", "product_review_rating", "product_review_count"}

\* the keys a record has all of, with these values, or none of
OtherKeys == {"id", "description", "gtin", "mpn", "material", "weight"}

OtherValues ==
    [id |-> Str(T_SKU1), description |-> Str(T_Shoe), gtin |-> Num(T_gtin8),
     mpn |-> Str(T_abc), material |-> Str(T_red), weight |-> Str(T_1_5_lb)]

ProductValues(key) ==
    CASE key = "title" -> {NoKey, Str(<<>>), Str(T_Shoe)}
      [] key = "brand" -> {NaN, Str(T_Acme), Num(T_25)}
      [] key = "link" -> {NoKey, Str(T_url)}
      [] key = "image_link" -> {None, Str(T_img)}
      [] key = "price" ->
           {NoKey, NaN, Str(<<>>), Str(T_79_99_USD), Str(T_79_99_EUR),
            Num(T_79_99)}
      [] key = "availability" ->
           {NoKey, NaN, Str(<<>>), Str(T_in_stock), Str(T_PREORDER),
            Str(T_out_of_stock), Str(T_preorder), Str(T_backorder)}
      [] key = "seller_name" -> {NoKey, Str(T_Acme)}
      [] key = "product_review_rating" -> {NoKey, Str(T_4_5)}
      [] key = "product_review_count" -> {NaN, Num(T_10)}

InitMarkup ==
    /\ mode = "markup"
    /\ pc = "ready"
    /\ \E others \in BOOLEAN :
       \E title \in ProductValues("title"), brand \in ProductValues("brand"),
          link \in ProductValues("link"),
          image_link \in ProductValues("image_link"),
          price \in ProductValues("price"),
          availability \in ProductValues("availability"),
          seller_name \in ProductValues("seller_name"),
          rating \in ProductValues("product_review_rating"),
          count \in ProductValues("product_review_count") :
            product_data =
               [k \in OtherKeys |-> IF others THEN OtherValues[k] ELSE NoKey]
               @@ [title |-> title, brand |-> brand, link |-> link,
                   image_link |-> image_link, price |-> price,
                   availability |-> availability, seller_name |-> seller_name,
                   product_review_rating |-> rating,
                   product_review_count |-> count]
    /\ schema = NoSchema
    /\ product = NoSchema
    /\ columns = {} /\ rows = <<>> /\ results = NoResults /\ idx = 0
    /\ field_name = "id" /\ value = None /\ field_result = NoFieldResult
    /\ field_spec = load_specifications["id"]

GenerateSchemaMarkup ==
    /\ mode = "markup"
    /\ pc = "ready"
    /\ schema' = generate_schema_markup(product_data)
    /\ pc' = "generated"
    /\ UNCHANGED <<mode, columns, rows, results, idx, field_name, value,
                   field_spec, field_result, product_data, product>>

ExtractProductFromSchema ==
    /\ mode = "markup"
    /\ pc = "generated"
    /\ product' = extract_product_from_schema(schema)
    /\ pc' = "extracted"
    /\ UNCHANGED <<mode, columns, rows, results, idx, field_name, value,
                   field_spec, field_result, product_data, schema>>

NextMarkup == GenerateSchemaMarkup \/ ExtractProductFromSchema

SpecMarkup == InitMarkup /\ [][NextMarkup]_vars

----------------------------------------------------------------------------
(* Claims about validate_field *)

\* C2: validate_field on an absent value (None, NaN or '') of a required
\* field returns exactly one error, the missing-field message naming that
\* field, and nothing from the type or pattern checks.
C2_AbsentRequiredOneError ==
    (mode = "field" /\ pc = "done"
       /\ (value = None \/ value = NaN \/ value = Str(<<>>))
       /\ load_specifications[field_name].required = "True")
    => /\ field_result.errors = <<Msg("required_missing", field_name)>>
       /\ field_result.raised = FALSE

C2_Witness ==
    /\ mode = "field" /\ pc = "done"
    /\ value = Str(<<>>)
    /\ field_name = "inventory_quantity"
    /\ field_result.errors = <<Msg("required_missing", "inventory_quantity")>>

----------------------------------------------------------------------------
(* Claims about validate_product_feed *)

\* how often message m occurs in the list es
Occurrences(m, es) == Cardinality({k \in 1..Len(es) : es[k] = m})

\* the record at row i has no value for field f: the feed has no such
\* column, or the record's cell is None, NaN or ''
NoValue(f, i) == f \in columns /\ rows[i][f] \in {None, NaN, Str(<<>>)}
NotSupplied(f, i) == f \notin columns \/ NoValue(f, i)

\* the loop over the rows has just finished the row at idx
RowDone == mode = "feed" /\ pc = "rows" /\ idx <= Len(rows) /\ idx' = idx + 1

\* the entries the step has appended to all_errors
NewErrors ==
    SubSeq(results'.all_errors, Len(results.all_errors) + 1,
           Len(results'.all_errors))

\* C1: for every record and every required registry field the record does
\* not supply, also a field no record of the feed declares, the error list
\* reported for the record holds one "Required field '<name>' is missing"
\* message for that field.
C1_MissingRequiredReported ==
    [][RowDone =>
         \A f \in RequiredFields :
            NotSupplied(f, idx) =>
               /\ Len(NewErrors) = 1
               /\ Occurrences(Msg("required_missing", f),
                              NewErrors[1].errors) = 1]_vars

\* C1 as amended: the message is reported for every required field that is
\* a column of the feed and has no value in the record; a required field
\* that is no column of the feed is in missing_required_fields and gets no
\* message in any record's error list.
C1_MissingRequiredColumnOrCell ==
    [][RowDone =>
         \A f \in RequiredFields :
            /\ NoValue(f, idx) =>
                  /\ Len(NewErrors) = 1
                  /\ Occurrences(Msg("required_missing", f),
                                 NewErrors[1].errors) = 1
            /\ f \notin columns =>
                  /\ f \in results'.missing_required_fields
                  /\ \A k \in 1..Len(NewErrors) :
                        Occurrences(Msg("required_missing", f),
                                    NewErrors[k].errors) = 0]_vars

C1_Witness ==
    /\ mode = "feed" /\ pc = "done"
    /\ Len(rows) = 1
    /\ columns = {"id", "color"}
    /\ rows[1]["id"] = Str(<<>>)
    /\ results.all_errors =
         <<[product_id |-> Str(<<>>),
            errors |-> <<Msg("required_missing", "id")>>]>>
    /\ "title" \in results.missing_required_fields

\* C3: after validate_product_feed, products_with_errors is the number of
\* records whose error list is non-empty and the number of entries of
\* all_errors, none of them empty; products_with_warnings is the number of
\* records whose warning list is non-empty.
C3_CountersMatchLists ==
    (mode = "feed" /\ pc = "done") =>
       /\ results.products_with_errors =
            Cardinality({i \in 1..Len(rows) :
                           ValidateRow(columns, rows[i]).errors # <<>>})
       /\ results.products_with_errors = Len(results.all_errors)
       /\ \A k \in 1..Len(results.all_errors) :
             results.all_errors[k].errors # <<>>
       /\ results.products_with_warnings =
            Cardinality({i \in 1..Len(rows) :
                           ValidateRow(columns, rows[i]).warnings # <<>>})
       /\ results.products_with_warnings = Len(results.all_warnings)

C3_Witness ==
    /\ mode = "feed" /\ pc = "done"
    /\ Len(rows) = 2
    /\ results.products_with_errors = 1
    /\ results.products_with_warnings = 1
    /\ ValidateRow(columns, rows[1]).errors = <<>>
    /\ ValidateRow(columns, rows[2]).warnings = <<>>

\* C4: the keys of field_coverage are exactly the keys of the registry,
\* whatever columns the feed has.
C4_CoverageKeysAreRegistry ==
    (mode = "feed" /\ pc \in {"rows", "done"}) =>
       DOMAIN results.field_coverage = DOMAIN load_specifications

C4_Witness ==
    /\ mode = "feed" /\ pc = "done"
    /\ "color" \in columns /\ "gtin" \notin columns /\ "id" \in columns
    /\ Len(rows) > 0
    /\ "color" \notin DOMAIN results.field_coverage
    /\ results.field_coverage["gtin"].present = FALSE

\* C5: for every registry field the reported percentage is
\* filled / total_products * 100 when total_products > 0, and 0 when
\* total_products = 0, also for a field the empty feed has as a column.
C5_PercentageOrZero ==
    (mode = "feed" /\ pc = "done") =>
       \A f \in DOMAIN results.field_coverage :
          /\ results.field_coverage[f].percentage.kind = "finite"
          /\ results.total_products > 0 =>
                results.field_coverage[f].percentage.num
                    * results.total_products
                  = results.field_coverage[f].filled * 100
                    * results.field_coverage[f].percentage.den
          /\ results.total_products = 0 =>
                results.field_coverage[f].percentage.num = 0

\* C6: validate_product_feed raises on no feed, whatever its values: while it
\* runs its loop has a next row to validate or returns, and at its return
\* total_products is the number of records and every part of the report is
\* there.
C6_AlwaysReturnsReport ==
    mode = "feed" =>
       /\ pc \in {"loaded", "rows", "done"}
       /\ pc = "rows" => idx \in 1..(Len(rows) + 1)
       /\ pc = "done" =>
             /\ results.status = "returned"
             /\ results.total_products = Len(rows)
             /\ idx = Len(rows) + 1
             /\ DOMAIN results =
                  {"status", "total_products", "products_with_errors",
                   "products_with_warnings", "field_coverage", "all_errors",
                   "all_warnings", "missing_required_fields",
                   "missing_recommended_fields"}

C6_Witness ==
    /\ mode = "feed" /\ pc = "done"
    /\ results.status = "returned"
    /\ Len(rows) = 2
    /\ "inventory_quantity" \in columns
    /\ rows[1]["inventory_quantity"] = Str(T_abc)
    /\ Occurrences(Msg("integer", "inventory_quantity"),
                   results.all_errors[1].errors) = 1

\* a decimal numeral: digits, optionally a point and more digits
DecimalNumeral(t) ==
    \E d \in 1..(Len(t) + 1) :
       /\ d = Len(t) + 1 \/ t[d] = "."
       /\ d > 1
       /\ AllDigits(SubSeq(t, 1, d - 1))
       /\ AllDigits(From(t, d + 1))

\* value v has the type the registry declares for field f and meets its
\* length, enum, non-negativity and pattern constraints
Conforms(f, v) ==
    /\ v.kind \in {"str", "num"}
    /\ v.text # <<>>
    /\ CASE load_specifications[f].type = "String" ->
              "max_length" \in load_specifications[f].keys
                 => Len(v.text) <= load_specifications[f].max_length
         [] load_specifications[f].type = "URL" -> validators_url(v.text)
         [] load_specifications[f].type = "Enum" ->
              \E k \in 1..Len(load_specifications[f].values) :
                 Lower(v.text) = load_specifications[f].values[k]
         [] load_specifications[f].type = "Integer" -> AllDigits(v.text)
         [] load_specifications[f].type = "Number" ->
              \E k \in 1..Len(v.text) :
                 /\ DecimalNumeral(SubSeq(v.text, 1, k))
                 /\ k = Len(v.text) \/ v.text[k + 1] = " "
    /\ "pattern" \in load_specifications[f].keys
          => AllDigits(v.text) /\ Len(v.text) \in 8..14

\* every required field of the record is there and conforms, and so does
\* every other registry field it has a value for
ConformingRow(row) ==
    /\ \A f \in RequiredFields : f \in columns /\ Conforms(f, row[f])
    /\ \A f \in (columns \cap FieldSet) \ RequiredFields :
          IsAbsent(row[f]) \/ Conforms(f, row[f])

\* C9: a record whose required fields are all present and conforming, and
\* whose other fields conform where present, gets no entry in all_errors and
\* does not count in products_with_errors.
C9_ConformingRecordNoErrors ==
    [][(RowDone /\ ConformingRow(rows[idx])) =>
         /\ pc' = "rows"
         /\ results'.all_errors = results.all_errors
         /\ results'.products_with_errors = results.products_with_errors]_vars

C9_Witness ==
    /\ mode = "feed" /\ pc = "done"
    /\ Len(rows) = 2
    /\ ConformingRow(rows[1])
    /\ "gtin" \in columns /\ "color" \in columns
    /\ rows[1]["gtin"] = NaN
    /\ ~ConformingRow(rows[2])
    /\ results.products_with_errors = 1
    /\ results.products_with_warnings = 1

----------------------------------------------------------------------------
(* Claims about generate_schema_markup and extract_product_from_schema *)

Generated == mode = "markup" /\ pc \in {"generated", "extracted"}

\* the record has no value for key: no such key, None, NaN or ''
Empty(key) ==
    \/ ~In(product_data, key)
    \/ isna(product_data[key])
    \/ product_data[key] = Str(<<>>)

\* the offers object of the document, no key when there is none
OffersOf(doc) == IF "offers" \in DOMAIN doc THEN doc["offers"].dict ELSE <<>>

RatingOf(doc) ==
    IF "aggregateRating" \in DOMAIN doc THEN doc["aggregateRating"].dict
    ELSE <<>>

\* C7: the document has no key whose source field is absent from the record
\* or empty (None, NaN or ''): no mapped scalar or brand, no offers without a
\* price, no offers.availability, offers.url or offers.seller, no
\* aggregateRating and no reviewCount.
C7_NoKeyForEmptySource ==
    Generated =>
       /\ \A f \in DOMAIN field_mapping :
             Empty(f) => field_mapping[f] \notin DOMAIN schema
       /\ Empty("price") => "offers" \notin DOMAIN schema
       /\ Empty("availability") => "availability" \notin DOMAIN OffersOf(schema)
       /\ Empty("link") => "url" \notin DOMAIN OffersOf(schema)
       /\ Empty("seller_name") => "seller" \notin DOMAIN OffersOf(schema)
       /\ Empty("product_review_rating") =>
             "aggregateRating" \notin DOMAIN schema
       /\ Empty("product_review_count") =>
             "reviewCount" \notin DOMAIN RatingOf(schema)

\* C10: with a price present (the key there and not None or NaN) the document
\* has an offers object; its availability, when the record has an
\* availability value, is the table's image of the lower-cased value, InStock
\* for a value outside the table; without a price no availability is emitted.
C10_AvailabilityTable ==
    Generated =>
       /\ Has(product_data, "price") <=> "offers" \in DOMAIN schema
       /\ (Has(product_data, "price") /\ Has(product_data, "availability")) =>
             /\ "availability" \in DOMAIN OffersOf(schema)
             /\ OffersOf(schema)["availability"] =
                  JStr(CASE Lower(product_data["availability"].text)
                              = T_in_stock -> T_InStock
                         [] Lower(product_data["availability"].text)
                              = T_out_of_stock -> T_OutOfStock
                         [] Lower(product_data["availability"].text)
                              = T_preorder -> T_PreOrder
                         [] OTHER -> T_InStock)
       /\ ~Has(product_data, "availability") =>
             "availability" \notin DOMAIN OffersOf(schema)
       /\ ~Has(product_data, "price") =>
             \A k \in DOMAIN schema :
                schema[k].json = "dict" =>
                   "availability" \notin DOMAIN schema[k].dict

C10_Witness ==
    /\ Generated
    /\ product_data["price"] = Str(T_79_99_USD)
    /\ product_data["availability"] = Str(T_PREORDER)
    /\ OffersOf(schema)["availability"] = JStr(T_PreOrder)
    /\ OffersOf(schema)["price"] = JStr(T_79_99)
    /\ OffersOf(schema)["priceCurrency"] = JStr(T_USD)

RoundTripDone == mode = "markup" /\ pc = "extracted"

\* the first token of a price text (the text itself when it has no token),
\* then a blank, then its second token, USD when it has none
NormalizedPrice(t) ==
    (IF Split(t) # <<>> THEN Split(t)[1] ELSE t)
    \o <<" ">> \o (IF Len(Split(t)) > 1 THEN Split(t)[2] ELSE T_USD)

\* the record supplies a value for key
Supplied(key) == ~Empty(key)

\* the recovered record has field f, holding the text t
Recovers(f, t) == f \in DOMAIN product /\ product[f] = Str(t)

\* C8: extract_product_from_schema(generate_schema_markup(record)) has the
\* original's title, description, link, brand and image_link wherever the
\* original supplied them, its price normalized to "<numeral> <currency>"
\* (USD when it named none), and its availability value.
C8_RoundTrip ==
    RoundTripDone =>
       /\ \A f \in {"title", "description", "link", "brand", "image_link"} :
             Supplied(f) => Recovers(f, str(product_data[f]))
       /\ Supplied("price") =>
             Recovers("price", NormalizedPrice(str(product_data["price"])))
       /\ Supplied("availability") =>
             Recovers("availability", Lower(str(product_data["availability"])))

\* C8 as amended: the five scalar fields are recovered as the text of the
\* originals wherever those are not None or NaN; a price that is not None or
\* NaN is recovered as its first token, a blank and its second token (USD
\* when it has none); the availability is recovered only when the original
\* has such a price, as the lower-cased original when that is one of the
\* three table values and as in_stock otherwise; without a price neither
\* price nor availability is recovered.
C8_RoundTripAmended ==
    RoundTripDone =>
       /\ \A f \in {"title", "description", "link", "brand", "image_link"} :
             Has(product_data, f) => Recovers(f, str(product_data[f]))
       /\ Has(product_data, "price") =>
             Recovers("price", NormalizedPrice(str(product_data["price"])))
       /\ (Has(product_data, "price") /\ Has(product_data, "availability")) =>
             Recovers("availability",
                      IF Lower(str(product_data["availability"]))
                           \in {T_in_stock, T_out_of_stock, T_preorder}
                      THEN Lower(str(product_data["availability"]))
                      ELSE T_in_stock)
       /\ ~Has(product_data, "price") =>
             /\ "price" \notin DOMAIN product
             /\ "availability" \notin DOMAIN product
       /\ ~Has(product_data, "availability") =>
             "availability" \notin DOMAIN product

C8_Witness ==
    /\ RoundTripDone
    /\ product_data["title"] = Str(T_Shoe)
    /\ product_data["brand"] = Num(T_25)
    /\ product_data["price"] = Num(T_79_99)
    /\ product_data["availability"] = Str(T_backorder)
    /\ product["title"] = Str(T_Shoe)
    /\ product["brand"] = Str(T_25)
    /\ product["price"] = Str(T_79_99_USD)
    /\ product["availability"] = Str(T_in_stock)

----------------------------------------------------------------------------
(* Claims about the Integer and Number checks of validate_field *)

\* validate_field has returned for a value that is there
FieldChecked ==
    mode = "field" /\ pc = "done" /\ value \notin {None, NaN, Str(<<>>)}

\* u spells a decimal numeral: digits with at most one point among them and
\* a digit on at least one side of it
DecimalDigits(u) ==
    /\ \E i \in 1..Len(u) : u[i] \in Digits
    /\ \A i \in 1..Len(u) : u[i] \in Digits \cup {"."}
    /\ Cardinality({i \in 1..Len(u) : u[i] = "."}) <= 1

\* s, which has no surrounding whitespace, spells a real number: an optional
\* sign, then a decimal numeral
SignedDecimal(s) ==
    \/ DecimalDigits(s)
    \/ s # <<>> /\ s[1] \in {"+", "-"} /\ DecimalDigits(Tail(s))

\* the text between the first and the last character of t that are not
\* whitespace
Trimmed(t) ==
    IF \A i \in 1..Len(t) : t[i] \in Whitespace THEN <<>>
    ELSE SubSeq(t,
                CHOOSE b \in 1..Len(t) :
                   t[b] \notin Whitespace
                   /\ \A j \in 1..(b - 1) : t[j] \in Whitespace,
                CHOOSE e \in 1..Len(t) :
                   t[e] \notin Whitespace
                   /\ \A j \in (e + 1)..Len(t) : t[j] \in Whitespace)

\* t spells a real number
RealNumeral(t) == SignedDecimal(Trimmed(t))

\* the digits of u before its point
WholeDigits(u) ==
    IF \A i \in 1..Len(u) : u[i] \in Digits THEN u
    ELSE SubSeq(u, 1, (CHOOSE i \in 1..Len(u) :
                         u[i] \notin Digits
                         /\ \A j \in 1..(i - 1) : u[j] \in Digits) - 1)

\* the real number s spells, truncated toward zero
TruncatedSigned(s) ==
    IF s[1] = "-" THEN 0 - DigitsVal(WholeDigits(Tail(s)))
    ELSE IF s[1] = "+" THEN DigitsVal(WholeDigits(Tail(s)))
    ELSE DigitsVal(WholeDigits(s))

Truncated(t) == TruncatedSigned(Trimmed(t))

\* C11: for an Integer field and a value that is there, validate_field
\* returns exactly the "must be an integer" error when the value's text
\* spells no real number, exactly the "must be non-negative" error when the
\* real number it spells, truncated toward zero, is below 0, and no error
\* otherwise; no exception leaves it.
C11_IntegerTruncates ==
    (FieldChecked /\ field_spec.type = "Integer") =>
       /\ ~field_result.raised
       /\ field_result.warnings = <<>>
       /\ field_result.errors =
             IF ~RealNumeral(str(value))
             THEN <<Msg("integer", field_name)>>
             ELSE IF Truncated(str(value)) < 0
             THEN <<Msg("non_negative", field_name)>>
             ELSE <<>>

\* "-0.5" truncates to 0 and passes
C11_Witness ==
    /\ FieldChecked
    /\ field_name = "return_window"
    /\ value = Str(T_minus_0_5)
    /\ field_result.errors = <<>>

\* the first whitespace-separated token of t, <<>> when t has none; s is t
\* without its surrounding whitespace
FirstWord(s) ==
    IF \A i \in 1..Len(s) : s[i] \notin Whitespace THEN s
    ELSE SubSeq(s, 1, (CHOOSE i \in 1..Len(s) :
                         s[i] \in Whitespace
                         /\ \A j \in 1..(i - 1) : s[j] \notin Whitespace) - 1)

FirstToken(t) == FirstWord(Trimmed(t))

\* w, a token, spells a floating-point number: a real number, an infinity
\* or a NaN
FloatLiteral(w) ==
    \/ SignedDecimal(w)
    \/ Lower(w) \in {<<"i","n","f">>, <<"n","a","n">>,
                      <<"i","n","f","i","n","i","t","y">>}
    \/ /\ w # <<>> /\ w[1] \in {"+", "-"}
       /\ Lower(Tail(w)) \in {<<"i","n","f">>, <<"n","a","n">>,
                               <<"i","n","f","i","n","i","t","y">>}

\* C12: for a Number field and a value that is there, validate_field returns
\* no error when the first whitespace-separated token of the value's text
\* exists and spells a floating-point number, whatever follows it, and
\* exactly the "must be a number" error otherwise.
C12_NumberFirstToken ==
    (FieldChecked /\ field_spec.type = "Number") =>
       /\ ~field_result.raised
       /\ field_result.warnings = <<>>
       /\ field_result.errors =
             IF FloatLiteral(FirstToken(str(value)))
             THEN <<>>
             ELSE <<Msg("number", field_name)>>

\* "USD 79.99" has a number, but not first
C12_Witness ==
    /\ FieldChecked
    /\ field_name = "price"
    /\ value = Str(T_USD_79_99)
    /\ field_result.errors = <<Msg("number", "price")>>

----------------------------------------------------------------------------
(* Claims about the coverage pass and the keys of the report's entries *)

\* the coverage pass of validate_product_feed is over
CoveragePassed == mode = "feed" /\ pc \in {"rows", "done"}

\* a record declares field f: f is a column of the feed, the key every one
\* of its records has
Declared(f) == f \in columns

C14_FilledCountsNonEmpty ==
    CoveragePassed =>
       \A f \in FieldSet :
          results.field_coverage[f].filled =
             Cardinality({i \in 1..Len(rows) : ~NotSupplied(f, i)})

\* the entries the step has appended to all_warnings
NewWarnings ==
    SubSeq(results'.all_warnings, Len(results.all_warnings) + 1,
           Len(results'.all_warnings))

\* the key the record at row i is to be reported under: its id, or the
\* label of its position when it has no id
ReportKey(i) ==
    IF NotSupplied("id", i)
    THEN Str(<<"R","o","w"," ">> \o IntText(i - 1))
    ELSE rows[i]["id"]

\* C16: every entry validate_product_feed adds to all_errors or all_warnings
\* for a record is keyed by the record's id when it has one and by
\* "Row <index>" when its id is absent or empty, whether or not the feed has
\* an id column.
C16_KeyedByIdOrRowLabel ==
    [][RowDone =>
         /\ \A k \in 1..Len(NewErrors) :
               NewErrors[k].product_id = ReportKey(idx)
         /\ \A k \in 1..Len(NewWarnings) :
               NewWarnings[k].product_id = ReportKey(idx)]_vars

----------------------------------------------------------------------------
(* Claim about the pattern check of validate_field *)

\* the errors of the result that are not the pattern error
TypeErrors == SelectSeq(field_result.errors, LAMBDA m : m.kind # "pattern")

\* C15: for a value that is there, validate_field runs the pattern check
\* whether or not the type check reported an error: the result holds what
\* the type check reported and, after it, the "does not match required
\* pattern" error iff the spec has a pattern and the value's text does not
\* match it.
C15_PatternAfterTypeCheck ==
    FieldChecked =>
       /\ ~field_result.raised
       /\ TypeErrors = TypeCheck(field_name, value, field_spec).errors
       /\ field_result.errors =
             TypeErrors
             \o (IF "pattern" \in field_spec.keys
                    /\ ~MatchesPattern(str(value))
                 THEN <<Msg("pattern", field_name)>> ELSE <<>>)

\* a length error and a pattern error from one call
C15_Witness ==
    /\ FieldChecked
    /\ field_name = "gtin"
    /\ field_spec.type = "String"
    /\ value = Str(Repeat("x", 101))
    /\ field_result.errors =
          <<Msg("max_length", "gtin"), Msg("pattern", "gtin")>>

====
